---- MODULE Spec2Model ----
(***************************************************************************)
(* Model of RotaryEncoderDriver/EncoderDriver.py: the Driver class of the  *)
(* Keyes KY-040 rotary encoder (polling loop run_loop, the settle loop     *)
(* _wait_for_reset, the classifier _analyze_state and the tracked state    *)
(* dictionary), together with the two ways the module's example code runs  *)
(* run_loop: directly, or inside a `with` block (__enter__/__exit__).      *)
(*                                                                         *)
(* Every gpio.input() is a nondeterministic choice of a Level: the lines   *)
(* are driven by the hardware.  kill_flag may be set by anybody at any     *)
(* moment (it is a public attribute), and a KeyboardInterrupt may be       *)
(* raised at any moment while run_loop runs: between two reads, inside     *)
(* _update_state_dictionary, while a callback or gpio.cleanup() runs.      *)
(*                                                                         *)
(* pc names the statement the thread is at or in:                          *)
(*   sample      line 207, _get_gpio_state of run_loop (lines 131-133)     *)
(*   update      line 211, _update_state_dictionary                        *)
(*   analyze     line 213, _analyze_state; the callbacks in log have been  *)
(*               called, the latest one may still be running               *)
(*   wait_entry  line 84                                                   *)
(*   wait_poll   line 89, _get_gpio_state of _wait_for_reset               *)
(*   wait_update lines 93-96                                               *)
(*   wait_sleep  line 97                                                   *)
(*   check       line 217 (on_release, if any, called; may still run)      *)
(*   cleanup     line 220, gpio.cleanup() not yet done                     *)
(*   cleaned     line 220, gpio.cleanup() done, run_loop not yet returned  *)
(*   stopped     run_loop has returned                                     *)
(*   raised      a KeyboardInterrupt has left run_loop                     *)
(*   handled     the except clause has run                                 *)
(*   exited      __exit__ has run                                          *)
(***************************************************************************)
EXTENDS Integers, Sequences, FiniteSets

\* The non-quiescent polls of one _wait_for_reset episode are counted up to
\* MaxPolls; the polling itself is not bounded.
MaxPolls == 3

Level == {0, 1}
Lines == {"clk", "dt", "sw"}
Callbacks == {"on_right", "on_left", "on_press", "on_release"}

VARIABLES
    pc,            \* position of the thread of control
    ctx,           \* TRUE: the Driver is used in a `with` block (line 257)
    states,        \* self.states
    kill_flag,     \* self.kill_flag
    swState,       \* local swState of _wait_for_reset (live from line 84 on)
    rd,            \* Levels returned so far by the _get_gpio_state call in progress
    cleanups,      \* number of gpio.cleanup() calls made so far
    log,           \* callbacks dispatched in the current outer iteration, in order
    sampleRead,    \* the triple read by the SAMPLING pass of the current iteration
    swHigh,        \* every read of sw in the current iteration returned 1
    allHigh,       \* every read of every line so far returned 1
    lowRun,        \* per line: dispatches of its gesture in the current run of 0 reads
    nPolls,        \* non-quiescent polls of the current settle episode, up to MaxPolls
    killAtSample,  \* kill_flag was already set when the latest SAMPLING pass began
    first,         \* no SAMPLING pass has begun yet
    exitPath,      \* how run_loop stopped: "running", "kill" or "interrupt"
    lastPoll,      \* the triple returned by the latest _get_gpio_state call
    lastRead,      \* per line read so far: the Level of its latest gpio.input()
    killReads      \* tests of kill_flag made in the current outer iteration

vars == <<pc, ctx, states, kill_flag, swState, rd, cleanups, log, sampleRead, swHigh,
          allHigh, lowRun, nPolls, killAtSample, first, exitPath, lastPoll,
          lastRead, killReads>>

----------------------------------------------------------------------------
(* Pure parts of the Driver *)

\* Driver.__init__, line 51
InitialStates == [clk |-> 1, dt |-> 1, sw |-> 1]

\* UpdateStateDictionary with `elif` for the second and third test
UpdateStateDictionary_Elif(st, stateClk, stateDt, stateSw) ==
    IF stateClk # st.clk THEN [st EXCEPT !.clk = stateClk]
    ELSE IF stateDt # st.dt THEN [st EXCEPT !.dt = stateDt]
    ELSE IF stateSw # st.sw THEN [st EXCEPT !.sw = stateSw]
    ELSE st

\* Driver._update_state_dictionary after its first k if statements
UpdatePrefix(st, stateClk, stateDt, stateSw, k) ==
    LET s1 == IF k >= 1 /\ stateClk # st.clk THEN [st EXCEPT !.clk = stateClk] ELSE st
        s2 == IF k >= 2 /\ stateDt # s1.dt THEN [s1 EXCEPT !.dt = stateDt] ELSE s1
    IN  s2

\* Driver._update_state_dictionary: compare, then write
UpdateStateDictionary(st, stateClk, stateDt, stateSw) ==
    LET s1 == IF stateClk # st.clk THEN [st EXCEPT !.clk = stateClk] ELSE st
        s2 == IF stateDt # s1.dt THEN [s1 EXCEPT !.dt = stateDt] ELSE s1
        s3 == IF stateSw # s2.sw THEN [s2 EXCEPT !.sw = stateSw] ELSE s2
    IN  s3

\* AnalyzeState with the left test missing its `clk == 1` conjunct
AnalyzeState_LeftIgnoresClk(st) ==
    LET r == IF st.clk = 0 /\ st.dt = 1 THEN <<"on_right">> ELSE <<>>
        l == IF st.dt = 0 THEN <<"on_left">> ELSE <<>>
        p == IF st.sw = 0 THEN <<"on_press">> ELSE <<>>
    IN  r \o l \o p

\* AnalyzeState with the switch taken as active-high
AnalyzeState_PressOnHigh(st) ==
    LET r == IF st.clk = 0 /\ st.dt = 1 THEN <<"on_right">> ELSE <<>>
        l == IF st.dt = 0 /\ st.clk = 1 THEN <<"on_left">> ELSE <<>>
        p == IF st.sw = 1 THEN <<"on_press">> ELSE <<>>
    IN  r \o l \o p

\* AnalyzeState with `elif` for the switch test
AnalyzeState_PressElif(st) ==
    IF st.clk = 0 /\ st.dt = 1 THEN <<"on_right">>
    ELSE IF st.dt = 0 /\ st.clk = 1 THEN <<"on_left">>
    ELSE IF st.sw = 0 THEN <<"on_press">>
    ELSE <<>>

\* AnalyzeState with the switch test moved before the rotation tests
AnalyzeState_PressFirst(st) ==
    LET r == IF st.clk = 0 /\ st.dt = 1 THEN <<"on_right">> ELSE <<>>
        l == IF st.dt = 0 /\ st.clk = 1 THEN <<"on_left">> ELSE <<>>
        p == IF st.sw = 0 THEN <<"on_press">> ELSE <<>>
    IN  p \o r \o l

\* Driver._analyze_state: the callbacks it calls, in call order
AnalyzeState(st) ==
    LET r == IF st.clk = 0 /\ st.dt = 1 THEN <<"on_right">> ELSE <<>>
        l == IF st.dt = 0 /\ st.clk = 1 THEN <<"on_left">> ELSE <<>>
        p == IF st.sw = 0 THEN <<"on_press">> ELSE <<>>
    IN  r \o l \o p

\* AtRest that forgets the switch line
AtRest_IgnoresSw(st) == st.clk = 1 /\ st.dt = 1

\* Driver._wait_for_reset, line 96: the rest test
AtRest(st) == st.clk = 1 /\ st.dt = 1 /\ st.sw = 1

\* OnRest without the swState test
OnRest_Always(sw0) == <<"on_release">>

\* OnRest with the swState test inverted
OnRest_Inverted(sw0) == IF sw0 = 1 THEN <<"on_release">> ELSE <<>>

\* Driver._wait_for_reset, lines 101-102: callbacks made when the rest state is seen
OnRest(sw0) == IF sw0 = 0 THEN <<"on_release">> ELSE <<>>

\* KillObserved that never sees the flag
KillObserved_Never(flag) == FALSE

\* Driver.run_loop, line 217: the cancellation test
KillObserved(flag) == flag = TRUE

----------------------------------------------------------------------------
(* Bookkeeping over the dispatched callbacks and the reads *)

Count(seq, c) == Cardinality({i \in 1..Len(seq) : seq[i] = c})

Has(seq, c) == \E i \in 1..Len(seq) : seq[i] = c

GestureOf(line) ==
    IF line = "clk" THEN "on_right" ELSE IF line = "dt" THEN "on_left" ELSE "on_press"

\* lowRun after the reads `r` (a function from the lines read to Levels) and the
\* dispatch of the callbacks `ev`
LowRunAfter(r, ev) ==
    [ln \in Lines |->
        (IF ln \in DOMAIN r /\ r[ln] = 1 THEN 0 ELSE lowRun[ln]) + Count(ev, GestureOf(ln))]

Triple(c, d, s) == [clk |-> c, dt |-> d, sw |-> s]

\* lastRead after the reads `r`
ReadsAfter(r) ==
    [ln \in (DOMAIN r) \cup (DOMAIN lastRead) |->
        IF ln \in DOMAIN r THEN r[ln] ELSE lastRead[ln]]

NoReads == [ln \in {} |-> 1]

One(ln, v) == [x \in {ln} |-> v]

\* Driver._get_gpio_state, lines 131-133: the line read next, after the reads `r`
NextLine(r) ==
    IF "clk" \notin DOMAIN r THEN "clk" ELSE IF "dt" \notin DOMAIN r THEN "dt" ELSE "sw"

\* positions at which the thread is inside run_loop
Running ==
    {"sample", "update", "analyze", "wait_entry", "wait_poll", "wait_update",
     "wait_sleep", "check", "cleanup", "cleaned"}

----------------------------------------------------------------------------
Init ==
    /\ pc = "sample"
    /\ ctx \in BOOLEAN
    /\ states = InitialStates
    /\ kill_flag = FALSE
    /\ swState = 1
    /\ rd = NoReads
    /\ cleanups = 0
    /\ log = <<>>
    /\ sampleRead = Triple(1, 1, 1)
    /\ swHigh = TRUE
    /\ allHigh = TRUE
    /\ lowRun = [ln \in Lines |-> 0]
    /\ nPolls = 0
    /\ killAtSample = FALSE
    /\ first = TRUE
    /\ exitPath = "running"
    /\ lastPoll = Triple(1, 1, 1)
    /\ lastRead = NoReads
    /\ killReads = 0

\* run_loop line 207 (_get_gpio_state, lines 131-133): one gpio.input(); the
\* first one of the call begins a new outer iteration
SampleRead ==
    /\ pc = "sample"
    /\ \E v \in Level :
         LET ln == NextLine(rd)
             r == [x \in (DOMAIN rd) \cup {ln} |-> IF x = ln THEN v ELSE rd[x]]
             begin == (ln = "clk")
             done == (ln = "sw")
         IN  /\ rd' = r
             /\ lastRead' = ReadsAfter(One(ln, v))
             /\ allHigh' = (allHigh /\ v = 1)
             /\ lowRun' = LowRunAfter(One(ln, v), <<>>)
             /\ swHigh' = IF done THEN (v = 1) ELSE swHigh
             /\ sampleRead' = IF done THEN r ELSE sampleRead
             /\ lastPoll' = IF done THEN r ELSE lastPoll
             /\ log' = IF begin THEN <<>> ELSE log
             /\ nPolls' = IF begin THEN 0 ELSE nPolls
             /\ killReads' = IF begin THEN 0 ELSE killReads
             /\ killAtSample' = IF begin THEN kill_flag ELSE killAtSample
             /\ pc' = IF done THEN "update" ELSE "sample"
    /\ first' = FALSE
    /\ UNCHANGED <<ctx, states, kill_flag, swState, cleanups, exitPath>>

\* run_loop line 211: _update_state_dictionary with the triple just read
Update ==
    /\ pc = "update"
    /\ states' = UpdateStateDictionary(states, rd.clk, rd.dt, rd.sw)
    /\ rd' = NoReads
    /\ pc' = "analyze"
    /\ UNCHANGED <<ctx, kill_flag, swState, cleanups, log, sampleRead, swHigh, allHigh,
                   lowRun, nPolls, killAtSample, first, exitPath, lastPoll, lastRead,
                   killReads>>

\* run_loop line 213, _analyze_state: the next callback is called, or, none
\* being left, _analyze_state returns
Analyze ==
    /\ pc = "analyze"
    /\ LET todo == AnalyzeState(states)
       IN  IF Len(log) < Len(todo)
             THEN /\ log' = Append(log, todo[Len(log) + 1])
                  /\ lowRun' = LowRunAfter(NoReads, <<todo[Len(log) + 1]>>)
                  /\ pc' = "analyze"
             ELSE /\ pc' = "wait_entry"
                  /\ UNCHANGED <<log, lowRun>>
    /\ UNCHANGED <<ctx, states, kill_flag, swState, rd, cleanups, sampleRead, swHigh,
                   allHigh, nPolls, killAtSample, first, exitPath, lastPoll, lastRead,
                   killReads>>

\* _wait_for_reset line 84: the separate read of the switch
WaitEntry ==
    /\ pc = "wait_entry"
    /\ \E s \in Level :
         /\ swState' = s
         /\ swHigh' = (swHigh /\ s = 1)
         /\ allHigh' = (allHigh /\ s = 1)
         /\ lowRun' = LowRunAfter(One("sw", s), <<>>)
         /\ lastRead' = ReadsAfter(One("sw", s))
    /\ pc' = "wait_poll"
    /\ UNCHANGED <<ctx, states, kill_flag, rd, cleanups, log, sampleRead, nPolls,
                   killAtSample, first, exitPath, lastPoll, killReads>>

\* _wait_for_reset line 89 (_get_gpio_state, lines 131-133): one gpio.input()
PollRead ==
    /\ pc = "wait_poll"
    /\ \E v \in Level :
         LET ln == NextLine(rd)
             r == [x \in (DOMAIN rd) \cup {ln} |-> IF x = ln THEN v ELSE rd[x]]
             done == (ln = "sw")
         IN  /\ rd' = r
             /\ lastRead' = ReadsAfter(One(ln, v))
             /\ allHigh' = (allHigh /\ v = 1)
             /\ lowRun' = LowRunAfter(One(ln, v), <<>>)
             /\ swHigh' = IF done THEN (swHigh /\ v = 1) ELSE swHigh
             /\ lastPoll' = IF done THEN r ELSE lastPoll
             /\ pc' = IF done THEN "wait_update" ELSE "wait_poll"
    /\ UNCHANGED <<ctx, states, kill_flag, swState, cleanups, log, sampleRead, nPolls,
                   killAtSample, first, exitPath, killReads>>

\* WaitUpdate that also leaves the loop when kill_flag is set
WaitUpdate_KillAware ==
    /\ pc = "wait_update"
    /\ LET st == UpdateStateDictionary(states, rd.clk, rd.dt, rd.sw)
       IN  /\ states' = st
           /\ pc' = IF AtRest(st) THEN "wait_sleep"
                    ELSE IF kill_flag THEN "check" ELSE "wait_poll"
           /\ nPolls' = IF AtRest(st) \/ nPolls = MaxPolls THEN nPolls ELSE nPolls + 1
    /\ rd' = NoReads
    /\ UNCHANGED <<ctx, kill_flag, swState, cleanups, log, sampleRead, swHigh, allHigh,
                   lowRun, killAtSample, first, exitPath, lastPoll, lastRead, killReads>>

\* _wait_for_reset lines 93-96: _update_state_dictionary with the triple just
\* read, then the rest test; at rest the thread goes on to the sleep of line 97,
\* otherwise to the next pass of the while loop
WaitUpdate ==
    /\ pc = "wait_update"
    /\ LET st == UpdateStateDictionary(states, rd.clk, rd.dt, rd.sw)
       IN  /\ states' = st
           /\ pc' = IF AtRest(st) THEN "wait_sleep" ELSE "wait_poll"
           /\ nPolls' = IF AtRest(st) \/ nPolls = MaxPolls THEN nPolls ELSE nPolls + 1
    /\ rd' = NoReads
    /\ UNCHANGED <<ctx, kill_flag, swState, cleanups, log, sampleRead, swHigh, allHigh,
                   lowRun, killAtSample, first, exitPath, lastPoll, lastRead, killReads>>

\* _wait_for_reset lines 97-105: the sleep is over; on_release is called if the
\* switch was captured low; break, and return to run_loop
WaitRest ==
    /\ pc = "wait_sleep"
    /\ log' = log \o OnRest(swState)
    /\ pc' = "check"
    /\ UNCHANGED <<ctx, states, kill_flag, swState, rd, cleanups, sampleRead, swHigh,
                   allHigh, lowRun, nPolls, killAtSample, first, exitPath, lastPoll,
                   lastRead, killReads>>

\* run_loop lines 217-218: the cancellation test
Check ==
    /\ pc = "check"
    /\ IF KillObserved(kill_flag)
         THEN /\ pc' = "cleanup"
              /\ exitPath' = "kill"
         ELSE /\ pc' = "sample"
              /\ UNCHANGED exitPath
    /\ killReads' = killReads + 1
    /\ UNCHANGED <<ctx, states, kill_flag, swState, rd, cleanups, log, sampleRead,
                   swHigh, allHigh, lowRun, nPolls, killAtSample, first, lastPoll,
                   lastRead>>

\* run_loop line 220: gpio.cleanup() releases the lines
Cleanup ==
    /\ pc = "cleanup"
    /\ cleanups' = cleanups + 1
    /\ pc' = "cleaned"
    /\ UNCHANGED <<ctx, states, kill_flag, swState, rd, log, sampleRead, swHigh,
                   allHigh, lowRun, nPolls, killAtSample, first, exitPath, lastPoll,
                   lastRead, killReads>>

\* run_loop returns to its caller
Return ==
    /\ pc = "cleaned"
    /\ pc' = "stopped"
    /\ UNCHANGED <<ctx, states, kill_flag, swState, rd, cleanups, log, sampleRead,
                   swHigh, allHigh, lowRun, nPolls, killAtSample, first, exitPath,
                   lastPoll, lastRead, killReads>>

\* somebody (a callback, the host) sets driver.kill_flag = True
SetKill ==
    /\ pc \in Running
    /\ kill_flag = FALSE
    /\ kill_flag' = TRUE
    /\ UNCHANGED <<pc, ctx, states, swState, rd, cleanups, log, sampleRead, swHigh,
                   allHigh, lowRun, nPolls, killAtSample, first, exitPath, lastPoll,
                   lastRead, killReads>>

\* KeyboardInterrupt raised between two statements of run_loop or of what it
\* calls: run_loop has no try/finally, the exception leaves it at once
Interrupt ==
    /\ pc \in Running
    /\ pc' = "raised"
    /\ exitPath' = "interrupt"
    /\ rd' = NoReads
    /\ UNCHANGED <<ctx, states, kill_flag, swState, cleanups, log, sampleRead, swHigh,
                   allHigh, lowRun, nPolls, killAtSample, first, lastPoll, lastRead,
                   killReads>>

\* KeyboardInterrupt raised inside _update_state_dictionary, after its first or
\* second if statement (lines 152-155): the dictionary is left partly updated
InterruptInUpdate ==
    /\ pc \in {"update", "wait_update"}
    /\ \E k \in {1, 2} : states' = UpdatePrefix(states, rd.clk, rd.dt, rd.sw, k)
    /\ pc' = "raised"
    /\ exitPath' = "interrupt"
    /\ rd' = NoReads
    /\ UNCHANGED <<ctx, kill_flag, swState, cleanups, log, sampleRead, swHigh, allHigh,
                   lowRun, nPolls, killAtSample, first, lastPoll, lastRead, killReads>>

\* the caller's handler, lines 254-255 and 260-261
Handler ==
    /\ pc = "raised"
    /\ kill_flag' = TRUE
    /\ pc' = "handled"
    /\ UNCHANGED <<ctx, states, swState, rd, cleanups, log, sampleRead, swHigh, allHigh,
                   lowRun, nPolls, killAtSample, first, exitPath, lastPoll,
                   lastRead, killReads>>

\* Driver.__exit__, lines 57-59: leaving the `with` block of line 257
Exit ==
    /\ ctx
    /\ pc \in {"stopped", "handled"}
    /\ cleanups' = cleanups + 1
    /\ pc' = "exited"
    /\ UNCHANGED <<ctx, states, kill_flag, swState, rd, log, sampleRead, swHigh, allHigh,
                   lowRun, nPolls, killAtSample, first, exitPath, lastPoll,
                   lastRead, killReads>>

Next ==
    \/ SampleRead
    \/ Update
    \/ Analyze
    \/ WaitEntry
    \/ PollRead
    \/ WaitUpdate
    \/ WaitRest
    \/ Check
    \/ Cleanup
    \/ Return
    \/ SetKill
    \/ Interrupt
    \/ InterruptInUpdate
    \/ Handler
    \/ Exit

Spec == Init /\ [][Next]_vars

\* The thread of control that runs run_loop keeps running: each statement of
\* the loop that can execute eventually does.  Every step of the thread changes
\* pc or rd, so this constrains the thread only: the Levels the lines return,
\* SetKill and the interrupts are left free (a line may read 0 for ever).
LiveSpec ==
    /\ Spec
    /\ WF_vars(SampleRead)
    /\ WF_vars(Update)
    /\ WF_vars(Analyze)
    /\ WF_vars(WaitEntry)
    /\ WF_vars(PollRead)
    /\ WF_vars(WaitUpdate)
    /\ WF_vars(WaitRest)
    /\ WF_vars(Check)
    /\ WF_vars(Cleanup)
    /\ WF_vars(Return)

TypeOK ==
    /\ pc \in Running \cup {"stopped", "raised", "handled", "exited"}
    /\ ctx \in BOOLEAN
    /\ states \in [Lines -> Level]
    /\ kill_flag \in BOOLEAN
    /\ swState \in Level
    /\ DOMAIN rd \subseteq Lines
    /\ pc \in {"update", "wait_update"} <=> (DOMAIN rd = Lines)
    /\ cleanups \in 0..2
    /\ \A i \in 1..Len(log) : log[i] \in Callbacks
    /\ sampleRead \in [Lines -> Level]
    /\ nPolls \in 0..MaxPolls
    /\ lastPoll \in [Lines -> Level]
    /\ DOMAIN lastRead \subseteq Lines
    /\ \A ln \in DOMAIN lastRead : lastRead[ln] \in Level
    /\ killReads \in 0..1

\* control is back with the code that started the driver, for good
Finished == (ctx /\ pc = "exited") \/ (~ctx /\ pc \in {"stopped", "handled"})

----------------------------------------------------------------------------
(* Claims *)

\* inside _wait_for_reset after line 84, or just returned from it
InEpisode == pc \in {"wait_poll", "wait_update", "wait_sleep", "check"}

\* C1: in every settle episode (_wait_for_reset call), on_release has been
\* dispatched exactly once when the call returns if the switch level captured
\* at entry is 0, and zero times if the captured level is 1; it is never
\* dispatched while the call is still polling or sleeping.
C1_ReleasePairing ==
    /\ pc \in {"wait_poll", "wait_update", "wait_sleep"} => Count(log, "on_release") = 0
    /\ (pc = "check" /\ swState = 0) => Count(log, "on_release") = 1
    /\ (InEpisode /\ swState = 1) => Count(log, "on_release") = 0

C1_Witness ==
    /\ pc = "check"
    /\ swState = 0
    /\ nPolls > 0
    /\ Count(log, "on_release") = 1

\* C2: every outer iteration whose SAMPLING pass dispatched on_press has
\* dispatched on_release exactly once by the time its settle episode is over,
\* whatever the line levels were in between.
C2_PressAnswered ==
    (pc = "check" /\ Has(log, "on_press")) => Count(log, "on_release") = 1

\* C3: on_release is dispatched in an outer iteration only if on_press was
\* dispatched earlier in the same iteration.
C3_ReleaseOnlyAfterPress ==
    Has(log, "on_release") => Has(log, "on_press")

\* C4 as stated: with kill_flag set before a SAMPLING phase begins, the loop
\* stops without reading the lines or dispatching again, i.e. no SAMPLING pass
\* ever begins with kill_flag already set.
C4_NoSampleAfterKill == ~killAtSample

\* C4 amended: a SAMPLING pass that begins with kill_flag already set still runs
\* (with its dispatches and its settle episode), and it is the last one: the
\* loop never comes back to the top of the while loop after it.
C4_LastIteration == killAtSample => ~(pc = "sample" /\ DOMAIN rd = {})

C4_Witness ==
    /\ killAtSample
    /\ pc = "stopped"
    /\ Has(log, "on_press")
    /\ Has(log, "on_release")

\* C5: when the loop has exited because run_loop observed kill_flag, and control
\* is back with the host for good, gpio.cleanup() has been called exactly once.
C5_CleanupExactlyOnce ==
    (Finished /\ exitPath = "kill") => cleanups = 1

\* C6: whenever run_loop has stopped, by kill_flag or by an exception, and
\* control is back with the host for good, gpio.cleanup() has run at least once.
C6_ReleasedOnEveryExit ==
    Finished => cleanups >= 1

\* C7: one classification pass on tracked (clk=0, dt=1) dispatches on_right and
\* not on_left, on (clk=1, dt=0) on_left and not on_right, on clk = dt neither;
\* on_right and on_left are never both dispatched, whatever sw is.  The pass is
\* over when _analyze_state has returned (pc = "wait_entry").
C7_RotationExclusive ==
    /\ pc = "wait_entry" =>
          /\ (states.clk = 0 /\ states.dt = 1) =>
                 (Count(log, "on_right") = 1 /\ ~Has(log, "on_left"))
          /\ (states.clk = 1 /\ states.dt = 0) =>
                 (Count(log, "on_left") = 1 /\ ~Has(log, "on_right"))
          /\ (states.clk = states.dt) =>
                 (~Has(log, "on_right") /\ ~Has(log, "on_left"))
    /\ ~(Has(log, "on_right") /\ Has(log, "on_left"))

C7_Witness ==
    /\ pc = "wait_entry"
    /\ states = Triple(0, 1, 0)
    /\ log = <<"on_right", "on_press">>

GestureCount(sq) ==
    Count(sq, "on_right") + Count(sq, "on_left") + Count(sq, "on_press")

\* C8: on_right, on_left and on_press are dispatched only by the
\* classification of a SAMPLING pass, never during SETTLING; every SAMPLING
\* pass after the first starts from a tracked state with clk, dt and sw all 1;
\* and a line that reads 0 on every read has its gesture dispatched at most
\* once during that run of 0 reads.
C8_MultiFireSuppression ==
    /\ [][ /\ GestureCount(log') > GestureCount(log) => pc = "analyze"
           /\ (pc = "sample" /\ DOMAIN rd = {} /\ DOMAIN rd' # {} /\ ~first) =>
                  states = Triple(1, 1, 1) ]_vars
    /\ [](\A ln \in Lines : lowRun[ln] <= 1)

C8_Witness ==
    /\ pc = "wait_poll"
    /\ nPolls = MaxPolls
    /\ lowRun["sw"] = 1
    /\ states.sw = 0
    /\ log = <<"on_press">>

\* the top of the while loop of run_loop, before the first read of a pass
AtLoopTop == pc = "sample" /\ DOMAIN rd = {}

\* C9: as long as every read of clk, dt and sw has returned 1, no callback has
\* been dispatched and every settle episode ends on its first poll; the
\* checkpoint then leads back to the top of the loop unless kill_flag is set;
\* and if every read returns 1 for ever, kill_flag is never set and no
\* exception is raised, the loop cycles for ever: it is again and again at the
\* top of the loop (SAMPLING) and again and again in _wait_for_reset (SETTLING).
C9_IdleNoCallbacks ==
    /\ [](allHigh =>
            /\ log = <<>>
            /\ nPolls = 0
            /\ pc = "check" => states = Triple(1, 1, 1))
    /\ [][allHigh' =>
            /\ (pc = "wait_update" /\ pc' \notin {pc, "raised"}) => pc' = "wait_sleep"
            /\ (pc = "check" /\ ~kill_flag /\ pc' \notin {pc, "raised"}) =>
                   (pc' = "sample" /\ DOMAIN rd' = {} /\ log' = <<>>)]_vars
    /\ ([]allHigh /\ []~kill_flag /\ [](exitPath = "running")) =>
           ([]<>AtLoopTop /\ []<>(pc = "wait_poll") /\ []<>(pc = "check"))

\* an idle outer iteration is over and the loop is back at its top
C9_Witness ==
    /\ allHigh
    /\ ~first
    /\ AtLoopTop
    /\ killReads = 1
    /\ DOMAIN lastRead = Lines
    /\ log = <<>>
    /\ ~kill_flag

\* C10: in an outer iteration whose SAMPLING pass read (clk=0, dt=1, sw=1) and
\* in which every later read of sw returned 1, exactly one on_right and no
\* other callback is dispatched; symmetrically for (clk=1, dt=0, sw=1) and
\* on_left.
C10_RotationOnly ==
    /\ (pc \in {"wait_entry", "wait_poll", "wait_update", "wait_sleep", "check",
                "cleanup", "cleaned", "stopped"} /\ swHigh) =>
          /\ sampleRead = Triple(0, 1, 1) => log = <<"on_right">>
          /\ sampleRead = Triple(1, 0, 1) => log = <<"on_left">>
    /\ (pc = "analyze" /\ swHigh) =>
          /\ sampleRead = Triple(0, 1, 1) => log \in {<<>>, <<"on_right">>}
          /\ sampleRead = Triple(1, 0, 1) => log \in {<<>>, <<"on_left">>}

C10_Witness ==
    /\ pc = "check"
    /\ swHigh
    /\ sampleRead = Triple(0, 1, 1)
    /\ nPolls > 0
    /\ log = <<"on_right">>

Pos(sq, c) == CHOOSE i \in 1..Len(sq) : sq[i] = c

\* C11: in one classification pass each of on_right, on_left and on_press is
\* dispatched at most once; on_press is dispatched iff tracked sw = 0, whether
\* or not a rotation fired; a rotation callback comes before on_press.
C11_IndependentFiring ==
    /\ pc = "wait_entry" => (Has(log, "on_press") <=> (states.sw = 0))
    /\ pc \in {"analyze", "wait_entry"} =>
          /\ \A c \in Callbacks : Count(log, c) <= 1
          /\ \A r \in {"on_right", "on_left"} :
                (Has(log, r) /\ Has(log, "on_press")) => Pos(log, r) < Pos(log, "on_press")
          /\ (pc = "analyze" /\ Has(log, "on_press")) =>
                \A r \in {"on_right", "on_left"} :
                    Has(AnalyzeState(states), r) => Has(log, r)

C11_Witness ==
    /\ pc = "wait_entry"
    /\ states = Triple(1, 0, 0)
    /\ log = <<"on_left", "on_press">>

\* inside _wait_for_reset
InSettle == pc \in {"wait_entry", "wait_poll", "wait_update", "wait_sleep"}

\* C12: kill_flag is tested at most once per outer iteration, and only at the
\* checkpoint after _wait_for_reset; with kill_flag set the decoder leaves
\* SETTLING (other than by an exception) only to that checkpoint and only with
\* the tracked state at rest; the loop is left for STOPPED (the break of line
\* 218, then gpio.cleanup() and the return) from the checkpoint alone.
C12_NoCancelMidDebounce ==
    /\ [][ /\ (killReads' # killReads /\ killReads' # 0) => pc = "check"
           /\ (pc' = "cleanup" /\ pc # "cleanup") => (pc = "check" /\ killReads' = 1)
           /\ (pc' = "cleaned" /\ pc # "cleaned") => pc = "cleanup"
           /\ (pc' = "stopped" /\ pc # "stopped") => pc = "cleaned"
           /\ (InSettle /\ kill_flag /\ ~InSettle' /\ pc' # "raised") =>
                  (pc' = "check" /\ states' = Triple(1, 1, 1)) ]_vars
    /\ [](killReads <= 1)

C12_Witness ==
    /\ pc = "stopped"
    /\ ~killAtSample
    /\ nPolls = MaxPolls
    /\ log = <<"on_press", "on_release">>

IdleReads == \A ln \in DOMAIN lastRead : lastRead[ln] = 1

\* C13: if from some point on every read of every line returns 1, then
\* whenever kill_flag is set while run_loop runs, run_loop eventually reaches
\* STOPPED (unless an exception takes it out first); and _wait_for_reset returns only on a poll
\* in which all three lines read 1, so it never returns while some line reads
\* 0 on every poll.
C13_TerminationAfterKill ==
    /\ (<>[]IdleReads) =>
           []((kill_flag /\ exitPath = "running") =>
                  <>(pc = "stopped" \/ exitPath = "interrupt"))
    /\ [][(InSettle /\ ~InSettle' /\ pc' # "raised") =>
              (pc = "wait_sleep" /\ lastPoll = Triple(1, 1, 1))]_vars
    /\ [](pc = "wait_sleep" => lastPoll = Triple(1, 1, 1))

C13_Witness ==
    /\ pc = "stopped"
    /\ exitPath = "kill"
    /\ nPolls = MaxPolls
    /\ IdleReads

\* C14: for every line read so far, states[line] is the Level of the latest
\* read of that line, the switch read at entry to _wait_for_reset included.
\* The points looked at are those of a running or stopped run_loop at which
\* no _get_gpio_state call is waiting for its _update_state_dictionary.
C14_TrackedMirrorsReads ==
    (pc \in (Running \cup {"stopped"}) \ {"update", "wait_update"} /\ DOMAIN rd = {}) =>
        \A ln \in DOMAIN lastRead : states[ln] = lastRead[ln]

\* _update_state_dictionary has returned for the latest triple sampled
Updated == pc \in (Running \cup {"stopped"}) \ {"update", "wait_update"}

\* C15: after _update_state_dictionary the tracked state is exactly the triple
\* that was sampled, whatever the tracked state was before.
C15_UpdateOverwrites ==
    /\ [](Updated => states = lastPoll)
    /\ [][(pc \in {"update", "wait_update"} /\ pc' \notin {pc, "raised"}) =>
              states' = Triple(rd.clk, rd.dt, rd.sw)]_vars

C15_Witness ==
    /\ pc = "wait_poll"
    /\ nPolls > 1
    /\ sampleRead = Triple(0, 1, 0)
    /\ states = Triple(1, 0, 1)

\* C16: applying _update_state_dictionary again with the triple it was last
\* applied with leaves the tracked state as it is.
C16_UpdateIdempotent ==
    Updated =>
        UpdateStateDictionary(states, lastPoll.clk, lastPoll.dt, lastPoll.sw) = states

C16_Witness ==
    /\ pc = "wait_poll"
    /\ nPolls > 1
    /\ sampleRead = Triple(1, 1, 0)
    /\ lastPoll = Triple(0, 0, 1)

\* C17: a pass of the _wait_for_reset loop takes the branch that leaves the
\* loop (lines 97-105) if and only if the tracked state after its update has
\* clk, dt and sw all 1; otherwise the decoder polls again.
C17_ExitIffQuiescent ==
    [][(pc = "wait_update" /\ pc' \notin {pc, "raised"}) =>
           /\ pc' \in {"wait_sleep", "wait_poll"}
           /\ (pc' = "wait_sleep") <=> (states' = Triple(1, 1, 1))]_vars

C17_Witness ==
    /\ pc = "check"
    /\ nPolls = MaxPolls
    /\ states = Triple(1, 1, 1)

\* C18: at every cancellation checkpoint, in STOPPED, and at the start of every
\* SAMPLING pass after the first, the tracked state has clk, dt and sw all 1.
C18_RestAtCheckpoint ==
    (pc \in {"check", "cleanup", "cleaned", "stopped"} \/ (pc = "sample" /\ ~first)) =>
        (states.clk = 1 /\ states.dt = 1 /\ states.sw = 1)

C18_Witness ==
    /\ pc = "stopped"
    /\ nPolls > 0
    /\ sampleRead = Triple(0, 0, 0)

Rank(c) ==
    IF c = "on_right" THEN 1 ELSE IF c = "on_left" THEN 2
    ELSE IF c = "on_press" THEN 3 ELSE 4

\* C19: the callbacks of one outer iteration occur in the order on_right,
\* on_left, on_press, on_release; on_release is the last one and is dispatched
\* only once the tracked state is at rest; no gesture callback is dispatched
\* in SETTLING, between the capture of the switch level and on_release.
C19_CallbackOrder ==
    /\ [](/\ \A i \in 1..Len(log) : \A j \in 1..Len(log) :
                i < j => Rank(log[i]) < Rank(log[j])
          /\ Has(log, "on_release") =>
                (states = Triple(1, 1, 1) /\ ~InSettle /\ log[Len(log)] = "on_release"))
    /\ [][InSettle => GestureCount(log') = GestureCount(log)]_vars

C19_Witness ==
    /\ pc = "check"
    /\ nPolls > 0
    /\ log = <<"on_right", "on_press", "on_release">>

====
